---- MODULE Spec2Model ----
(***************************************************************************)
(* Goedel Prime Encoder (src/script.js, with the earlier variant kept in   *)
(* src/unnamed/part_000): the prime table, the character mapper, the       *)
(* encoder, the binary projection, the pixel-grid rasterizer and the DOM   *)
(* event handlers, modelled as state machines over bounded inputs.         *)
(*                                                                         *)
(* Characters are their ASCII codes, strings are sequences of codes, bit   *)
(* strings are sequences of "0"/"1", and a BigInt is the sequence of its   *)
(* base-2^15 limbs, least significant first, without leading zero limbs    *)
(* (so equality of BigInts is equality of sequences).  A thrown exception  *)
(* is a value: the field threw of a call's outcome.                        *)
(***************************************************************************)
EXTENDS Integers, Sequences, FiniteSets, TLC

VARIABLES
    \* generatePrimes(count), one loop iteration per step
    count, primes, num, genPc,
    \* getCharValue(char, shift) and the shift applied back
    mapChar, mapShift, charValue, shiftedBack, mapPc,
    \* calculateGodelNumber on two texts under one shift
    text1, text2, encShift, out1, out2, encPc,
    \* drawPixelGrid(binary, mode, colorShift) of either variant
    rasBinary, rasMode, rasColorShift, rasOut, rasPc,
    \* the page: the controls' values, ...
    textInput, encodingShiftSlider, colorShiftSlider, colorSchemeSelect,
    \* ... the elements the handlers write, ...
    encodingShiftValue, colorShiftValue, colorShiftGroupDisabled,
    errorMessage, resultSectionHidden, display, canvas,
    \* ... and the call of calculateGodelNumber made by the last handler
    lastCall

genVars == <<count, primes, num, genPc>>
mapVars == <<mapChar, mapShift, charValue, shiftedBack, mapPc>>
encVars == <<text1, text2, encShift, out1, out2, encPc>>
rasVars == <<rasBinary, rasMode, rasColorShift, rasOut, rasPc>>
uiControls == <<textInput, encodingShiftSlider, colorShiftSlider, colorSchemeSelect>>
uiVars == <<uiControls, encodingShiftValue, colorShiftValue, colorShiftGroupDisabled,
            errorMessage, resultSectionHidden, display, canvas, lastCall>>
vars == <<genVars, mapVars, encVars, rasVars, uiVars>>

----------------------------------------------------------------------------
(* Bounds of the model *)

\* generatePrimes is run for count in -MaxNegCount..MaxCount
MaxCount == 12
MaxNegCount == 2
\* texts given to the encoder have at most MaxTextLen characters
MaxTextLen == 2
\* shifts are s (the encoder) and s + 36k (the character mapper) for s in
\* -MaxShift..MaxShift and k in -1..1
MaxShift == 2
\* bit strings: every one of at most MaxAllBits bits, and for every length up
\* to MaxBits the patterns 0..MaxPattern
MaxAllBits == 4
MaxBits == 50
MaxPattern == 3
\* colorShift is in 0..MaxColorShift
MaxColorShift == 3
\* the sliders of the page go from 0 to MaxUiShift and to MaxUiColorShift
MaxUiShift == 1
MaxUiColorShift == 1

----------------------------------------------------------------------------
(* Program constants *)

\* generatePrimes(1000)
PrimeTableSize == 1000
\* ((baseValue - 1 + shift) % 36) + 1
AlphabetSize == 36
\* input.length > 100
MaxInputLength == 100

----------------------------------------------------------------------------
(* JavaScript arithmetic *)

\* a % b of JavaScript for b > 0: the remainder takes the sign of a
JsRem(a, b) == IF a >= 0 THEN a % b ELSE -((-a) % b)

Max(a, b) == IF a >= b THEN a ELSE b
Min(a, b) == IF a <= b THEN a ELSE b

----------------------------------------------------------------------------
(* BigInt: exact arithmetic on limb sequences *)

LimbBits == 16 - 1
LimbBase == 2 ^ LimbBits

\* JavaScript evaluates a call's arguments before the call: F applied to
\* the values of its arguments
ByValue1(F(_), a) == CHOOSE r \in {F(v) : v \in {a}} : TRUE
ByValue2(F(_, _), a, b) == CHOOSE r \in {F(v, w) : v \in {a}, w \in {b}} : TRUE

\* A loop of the code is a record st of the loop's variables, XDone(st) for
\* its exit test and XBody(st) for one iteration; XLoop(st, 0) runs it to its
\* end, in runs of 1, 2, 4, ... iterations.

\* BigInt(n) for an integer n >= 0
RECURSIVE BigInt(_)
BigInt(n) ==
    IF n = 0 THEN <<>>
    ELSE <<n % LimbBase>> \o ByValue1(BigInt, n \div LimbBase)

CarryDone(st) == st.i > Len(st.cols)

CarryBody(st) ==
    LET v == st.cols[st.i] + st.carry
    IN  [st EXCEPT !.i = @ + 1, !.carry = v \div LimbBase,
                   !.limbs = Append(@, v % LimbBase)]

\* carry propagation over the columns st.cols, for at most 2^k iterations
RECURSIVE CarryRun(_, _)
CarryRun(st, k) ==
    IF CarryDone(st) THEN st
    ELSE IF k = 0 THEN CarryBody(st)
    ELSE ByValue2(CarryRun, CarryRun(st, k - 1), k - 1)

\* carry propagation over the columns st.cols, to its end
RECURSIVE CarryLoop(_, _)
CarryLoop(st, k) ==
    IF CarryDone(st) THEN st ELSE ByValue2(CarryLoop, CarryRun(st, k), k + 1)

\* the limbs of the number whose columns (limb sums or products) are cols
Carry(cols) ==
    LET st == CarryLoop([cols |-> cols, i |-> 1, carry |-> 0, limbs |-> <<>>], 0)
    IN  IF st.carry = 0 THEN st.limbs ELSE Append(st.limbs, st.carry)

BigAddValues(a, b) ==
    ByValue1(Carry,
             [i \in 1..Max(Len(a), Len(b)) |->
                 (IF i <= Len(a) THEN a[i] ELSE 0) + (IF i <= Len(b) THEN b[i] ELSE 0)])

\* a + b
BigAdd(a, b) == ByValue2(BigAddValues, a, b)

BigMulLimbValues(a, k) ==
    IF k = 0 THEN <<>> ELSE ByValue1(Carry, [i \in 1..Len(a) |-> a[i] * k])

\* a * k for one limb k
BigMulLimb(a, k) == ByValue2(BigMulLimbValues, a, k)

BigShiftLimb(a) == IF a = <<>> THEN <<>> ELSE <<0>> \o a

BigMulDone(st) == st.j = 0

BigMulBody(st) ==
    [st EXCEPT !.j = @ - 1,
               !.acc = BigAdd(BigMulLimb(st.a, st.b[st.j]), BigShiftLimb(st.acc))]

\* schoolbook multiplication, from the top limb of st.b down, for at most 2^k iterations
RECURSIVE BigMulRun(_, _)
BigMulRun(st, k) ==
    IF BigMulDone(st) THEN st
    ELSE IF k = 0 THEN BigMulBody(st)
    ELSE ByValue2(BigMulRun, BigMulRun(st, k - 1), k - 1)

\* schoolbook multiplication, from the top limb of st.b down, to its end
RECURSIVE BigMulLoop(_, _)
BigMulLoop(st, k) ==
    IF BigMulDone(st) THEN st ELSE ByValue2(BigMulLoop, BigMulRun(st, k), k + 1)

\* a * b
BigMul(a, b) == BigMulLoop([a |-> a, b |-> b, j |-> Len(b), acc |-> <<>>], 0).acc

BigPowDone(st) == st.e = 0

BigPowBody(st) ==
    [st EXCEPT !.e = @ - 1, !.acc = BigMul(@, st.base)]

\* repeated multiplication, for at most 2^k iterations
RECURSIVE BigPowRun(_, _)
BigPowRun(st, k) ==
    IF BigPowDone(st) THEN st
    ELSE IF k = 0 THEN BigPowBody(st)
    ELSE ByValue2(BigPowRun, BigPowRun(st, k - 1), k - 1)

\* repeated multiplication, to its end
RECURSIVE BigPowLoop(_, _)
BigPowLoop(st, k) ==
    IF BigPowDone(st) THEN st ELSE ByValue2(BigPowLoop, BigPowRun(st, k), k + 1)

\* base ** e for an integer e >= 0
BigPow(base, e) == BigPowLoop([base |-> base, e |-> e, acc |-> <<1>>], 0).acc

\* bit k (0 the least significant) of a
BigBit(a, k) ==
    IF (a[(k \div LimbBits) + 1] \div (2 ^ (k % LimbBits))) % 2 = 1 THEN "1" ELSE "0"

toBinaryValue(a) ==
    IF a = <<>> THEN <<"0">>
    ELSE LET n   == LimbBits * Len(a)
             top == CHOOSE k \in 0..(n - 1) :
                       /\ BigBit(a, k) = "1"
                       /\ \A j \in (k + 1)..(n - 1) : BigBit(a, j) = "0"
         IN  ByValue1(LAMBDA t : [i \in 1..(t + 1) |-> BigBit(a, t + 1 - i)], top)

\* bigIntNum.toString(2)
toBinary(bigIntNum) == ByValue1(toBinaryValue, bigIntNum)

\* long division of st.a by the small number st.d, from the top limb down
BigDivSmallDone(st) == st.i = 0

BigDivSmallBody(st) ==
    LET v == st.rem * LimbBase + st.a[st.i]
    IN  [st EXCEPT !.i = @ - 1, !.rem = v % st.d, !.q = <<v \div st.d>> \o @]

RECURSIVE BigDivSmallRun(_, _)
BigDivSmallRun(st, k) ==
    IF BigDivSmallDone(st) THEN st
    ELSE IF k = 0 THEN BigDivSmallBody(st)
    ELSE ByValue2(BigDivSmallRun, BigDivSmallRun(st, k - 1), k - 1)

RECURSIVE BigDivSmallLoop(_, _)
BigDivSmallLoop(st, k) ==
    IF BigDivSmallDone(st) THEN st ELSE ByValue2(BigDivSmallLoop, BigDivSmallRun(st, k), k + 1)

\* [q, rem]: the quotient and the remainder of a by d, for 0 < d <= 2^15
BigDivSmall(a, d) ==
    LET st == BigDivSmallLoop([a |-> a, d |-> d, i |-> Len(a), rem |-> 0, q |-> <<>>], 0)
        q  == st.q
    IN  [q   |-> IF q # <<>> /\ q[Len(q)] = 0 THEN SubSeq(q, 1, Len(q) - 1) ELSE q,
         rem |-> st.rem]

\* the decimal digits of st.n, the last digit first
toStringDone(st) == st.n = <<>>

toStringBody(st) ==
    ByValue1(LAMBDA d : [n |-> d.q, digits |-> <<d.rem>> \o st.digits],
             BigDivSmall(st.n, 10))

RECURSIVE toStringRun(_, _)
toStringRun(st, k) ==
    IF toStringDone(st) THEN st
    ELSE IF k = 0 THEN toStringBody(st)
    ELSE ByValue2(toStringRun, toStringRun(st, k - 1), k - 1)

RECURSIVE toStringLoop(_, _)
toStringLoop(st, k) ==
    IF toStringDone(st) THEN st ELSE ByValue2(toStringLoop, toStringRun(st, k), k + 1)

\* number.toString(): the decimal digits 0..9, the first digit first
toString(number) ==
    IF number = <<>> THEN <<0>>
    ELSE toStringLoop([n |-> number, digits |-> <<>>], 0).digits

----------------------------------------------------------------------------
(* generatePrimes *)

\* the for loop over i = 2 .. Math.sqrt(num): it ends by its test or by break
isPrimeDoneStrict(st) == ~(st.i * st.i < st.num) \/ ~st.isPrime

isPrimeDone(st) == ~(st.i * st.i <= st.num) \/ ~st.isPrime

isPrimeBody(st) ==
    IF st.num % st.i = 0 THEN [st EXCEPT !.isPrime = FALSE]
    ELSE [st EXCEPT !.i = @ + 1]

\* the for loop, for at most 2^k iterations
RECURSIVE isPrimeRun(_, _)
isPrimeRun(st, k) ==
    IF isPrimeDone(st) THEN st
    ELSE IF k = 0 THEN isPrimeBody(st)
    ELSE ByValue2(isPrimeRun, isPrimeRun(st, k - 1), k - 1)

\* the for loop, to its end
RECURSIVE isPrimeLoop(_, _)
isPrimeLoop(st, k) ==
    IF isPrimeDone(st) THEN st ELSE ByValue2(isPrimeLoop, isPrimeRun(st, k), k + 1)

isPrime(n) == isPrimeLoop([num |-> n, i |-> 2, isPrime |-> TRUE], 0).isPrime

\* the while loop on st = [primes, num, count]
generatePrimesDone(st) == ~(Len(st.primes) < st.count)

generatePrimesBody(st) ==
    [st EXCEPT !.primes = IF isPrime(st.num) THEN Append(@, BigInt(st.num)) ELSE @,
               !.num = @ + 1]

\* the while loop, for at most 2^k iterations
RECURSIVE generatePrimesRun(_, _)
generatePrimesRun(st, k) ==
    IF generatePrimesDone(st) THEN st
    ELSE IF k = 0 THEN generatePrimesBody(st)
    ELSE ByValue2(generatePrimesRun, generatePrimesRun(st, k - 1), k - 1)

\* the while loop, to its end
RECURSIVE generatePrimesLoop(_, _)
generatePrimesLoop(st, k) ==
    IF generatePrimesDone(st) THEN st ELSE ByValue2(generatePrimesLoop, generatePrimesRun(st, k), k + 1)

generatePrimes(cnt) ==
    generatePrimesLoop([primes |-> <<>>, num |-> 2, count |-> cnt], 0).primes

PRIMES == generatePrimes(PrimeTableSize)

----------------------------------------------------------------------------
(* getCharValue *)

\* null, and a number v as the one-element sequence <<v>>
Null == <<>>
Some(v) == <<v>>

\* char.toUpperCase() of an ASCII character
toUpperCase(char) == IF char >= 97 /\ char <= 122 THEN char - 32 ELSE char

applyShiftWrongModulus(baseValue, shift) ==
    IF shift # 0 THEN JsRem(baseValue - 1 + shift, AlphabetSize - 1) + 1 ELSE baseValue

\* if (shift !== 0) baseValue = ((baseValue - 1 + shift) % 36) + 1
applyShift(baseValue, shift) ==
    IF shift # 0 THEN JsRem(baseValue - 1 + shift, AlphabetSize) + 1 ELSE baseValue

getCharValue(char, shift) ==
    LET upper == toUpperCase(char)
    IN  IF upper >= 65 /\ upper <= 90
        THEN Some(applyShift(upper - 65 + 1, shift))
        ELSE IF char >= 48 /\ char <= 57
        THEN Some(applyShift(char - 48 + 27, shift))
        ELSE Null

validateInputAnyChar(text) == Len(text) >= 1

\* /^[a-zA-Z0-9]+$/.test(text)
isAlnum(c) == (c >= 97 /\ c <= 122) \/ (c >= 65 /\ c <= 90) \/ (c >= 48 /\ c <= 57)
validateInput(text) == Len(text) >= 1 /\ \A i \in 1..Len(text) : isAlnum(text[i])

----------------------------------------------------------------------------
(* calculateGodelNumber *)

Thrown(e) == [threw |-> e, number |-> <<>>, breakdown |-> <<>>]
NotCalled == [threw |-> "not called", number |-> <<>>, breakdown |-> <<>>]

\* the for loop on st = [text, encodingShift, i, result, breakdown, threw]
calculateDone(st) == st.threw # "none" \/ ~(st.i < Len(st.text))

calculateBody(st) ==
    LET i    == st.i
        char == st.text[i + 1]
    IN  ByValue1(LAMBDA cv :
          IF cv = Null \/ i >= Len(PRIMES)
          THEN [st EXCEPT !.threw = "TypeError"]   \* BigInt(null), undefined ** 1n
          ELSE IF cv[1] < 0
          THEN [st EXCEPT !.threw = "RangeError"]  \* a negative BigInt exponent
          ELSE ByValue1(LAMBDA term :
                 [st EXCEPT !.i = i + 1,
                            !.result = BigMul(@, term),
                            !.breakdown =
                                Append(@, [position |-> i + 1, char |-> char,
                                           prime |-> PRIMES[i + 1],
                                           exponent |-> cv[1], term |-> term])],
                 BigPow(PRIMES[i + 1], cv[1])),
          getCharValue(char, st.encodingShift))

\* the for loop, for at most 2^k iterations
RECURSIVE calculateRun(_, _)
calculateRun(st, k) ==
    IF calculateDone(st) THEN st
    ELSE IF k = 0 THEN calculateBody(st)
    ELSE ByValue2(calculateRun, calculateRun(st, k - 1), k - 1)

\* the for loop, to its end
RECURSIVE calculateLoop(_, _)
calculateLoop(st, k) ==
    IF calculateDone(st) THEN st ELSE ByValue2(calculateLoop, calculateRun(st, k), k + 1)

calculateGodelNumber(text, encodingShift) ==
    LET st == calculateLoop([text |-> text, encodingShift |-> encodingShift, i |-> 0,
                             result |-> <<1>>, breakdown |-> <<>>, threw |-> "none"], 0)
    IN  IF st.threw # "none" THEN Thrown(st.threw)
        ELSE [threw |-> "none", number |-> st.result, breakdown |-> st.breakdown]

----------------------------------------------------------------------------
(* drawPixelGrid (src/script.js) *)

\* a number that may be NaN: NaN, or Num(n)
NaN == <<>>
Num(n) == <<n>>
Undefined == <<>>

\* binaryStr.substring(from, to), 0-based, to exclusive
substring(str, from, to) == SubSeq(str, from + 1, to)

padStart(str, n) ==
    IF Len(str) >= n THEN str ELSE [i \in 1..(n - Len(str)) |-> "0"] \o str

\* str.padEnd(n, '0')
padEnd(str, n) ==
    IF Len(str) >= n THEN str ELSE str \o [i \in 1..(n - Len(str)) |-> "0"]

\* the for loop of binaryToInt on st = [binaryStr, i, value]
RECURSIVE binaryToIntLoop(_)
binaryToIntLoop(st) ==
    IF ~(st.i < Len(st.binaryStr)) THEN st.value
    ELSE ByValue1(binaryToIntLoop,
                  [st EXCEPT !.value = @ * 2 + (IF st.binaryStr[st.i + 1] = "1" THEN 1 ELSE 0),
                             !.i = @ + 1])

binaryToInt(binaryStr) ==
    ByValue1(binaryToIntLoop, [binaryStr |-> binaryStr, i |-> 0, value |-> 0])

channelOrders == << <<"R", "G", "B">>, <<"G", "B", "R">>, <<"B", "R", "G">> >>

\* channelOrders[colorShift % 3]
channelOrderOf(colorShift) ==
    IF JsRem(colorShift, 3) >= 0 THEN channelOrders[JsRem(colorShift, 3) + 1]
    ELSE Undefined

\* the iterations of for (i = 0; i < length; i += step)
Iterations(length, step) == (length + step - 1) \div step

\* the pixel pushed by the greyscale loop at i
greyscalePixel(binary, i) ==
    LET chunk       == substring(binary, i, Min(i + 8, Len(binary)))
        paddedChunk == padEnd(chunk, 8)
    IN  ByValue1(LAMBDA greyValue : <<greyValue, greyValue, greyValue>>,
                 binaryToInt(paddedChunk))

\* the pixel [r, g, b] pushed by the rgb loop at i
rgbPixel(binary, i, colorShift) ==
    ByValue1(LAMBDA paddedChunk :
        LET val1 == binaryToInt(substring(paddedChunk, 0, 8))
            val2 == binaryToInt(substring(paddedChunk, 8, 16))
            val3 == binaryToInt(substring(paddedChunk, 16, 24))
        IN  IF colorShift = 0 THEN <<val1, val2, val3>>       \* r, g, b = val1, val2, val3
            ELSE IF colorShift = 1 THEN <<val3, val1, val2>>  \* g, b, r = val1, val2, val3
            ELSE <<val2, val3, val1>>,                        \* b, r, g = val1, val2, val3
        padEnd(substring(binary, i, Min(i + 24, Len(binary))), 24))

\* the pixels array after the if / else if chain on mode
pixelsOf(binary, mode, colorShift) ==
    IF mode = "bw"
    THEN [p \in 1..Len(binary) |->
            LET value == IF binary[p] = "1" THEN 255 ELSE 0 IN <<value, value, value>>]
    ELSE IF mode = "greyscale"
    THEN [p \in 1..Iterations(Len(binary), 8) |-> greyscalePixel(binary, 8 * (p - 1))]
    ELSE IF mode = "rgb"
    THEN [p \in 1..Iterations(Len(binary), 24) |->
            rgbPixel(binary, 24 * (p - 1), colorShift)]
    ELSE <<>>

modeDescriptionOf(mode, channelOrder) ==
    IF mode = "bw" THEN <<"1-bit Black & White">>
    ELSE IF mode = "greyscale" THEN <<"8-bit Greyscale (256 levels)">>
    ELSE IF mode = "rgb" THEN <<"24-bit RGB (">> \o channelOrder \o <<" order)">>
    ELSE Undefined

\* Math.ceil(Math.sqrt(n))
ceilSqrt(n) == CHOOSE w \in 0..n : w * w >= n /\ \A v \in 0..(w - 1) : v * v < n

\* const width = Math.ceil(Math.sqrt(totalPixels))
gridWidth(totalPixels) == ceilSqrt(totalPixels)

gridHeightFloor(totalPixels, width) ==
    IF width = 0 THEN NaN ELSE Num(totalPixels \div width)

\* const height = Math.ceil(totalPixels / width): 0 / 0 is NaN
gridHeight(totalPixels, width) ==
    IF width = 0 THEN NaN ELSE Num((totalPixels + width - 1) \div width)

\* Math.max(1, Math.min(20, Math.floor(maxCanvasSize / width))): 500 / 0 is Infinity
maxCanvasSize == 500
pixelSizeOf(width) ==
    IF width = 0 THEN Max(1, 20) ELSE Max(1, Min(20, maxCanvasSize \div width))

\* const x = (index % width) * pixelSize
cellX(index, width, pixelSize) == (index % width) * pixelSize

\* const y = Math.floor(index / width) * pixelSize
cellY(index, width, pixelSize) == (index \div width) * pixelSize

fillRect(x, y, w, h, fillStyle) == [x |-> x, y |-> y, w |-> w, h |-> h, fillStyle |-> fillStyle]

\* ctx.fillStyle = 'rgb(0, 0, 0)'
padColor == <<0, 0, 0>>

\* everything after the if / else if chain, on the values of its results
drawCells(binary, mode, pixels, channelOrder) ==
    LET totalPixels == Len(pixels)
        width       == gridWidth(totalPixels)
        height      == gridHeight(totalPixels, width)
        pixelSize   == pixelSizeOf(width)
        \* width * height - totalPixels is NaN for a NaN height: no iteration
        remainingCells == IF height = NaN THEN 0 ELSE width * height[1] - totalPixels
    IN  [threw        |-> "none",
         pixels       |-> pixels,
         canvasWidth  |-> width * pixelSize,
         canvasHeight |-> IF height = NaN THEN 0 ELSE height[1] * pixelSize,
         fills        |->
             [k \in 1..(totalPixels + Max(remainingCells, 0)) |->
                 fillRect(cellX(k - 1, width, pixelSize),
                          cellY(k - 1, width, pixelSize), pixelSize, pixelSize,
                          IF k <= totalPixels THEN pixels[k] ELSE padColor)],
         dimensions   |-> [modeDescription |-> modeDescriptionOf(mode, channelOrder),
                           width |-> width, height |-> height,
                           totalPixels |-> totalPixels, bits |-> Len(binary)],
         width |-> width, height |-> height, pixelSize |-> pixelSize]

NotDrawn ==
    [threw |-> "not called", canvasWidth |-> 0, canvasHeight |-> 0, fills |-> <<>>,
     dimensions |-> Undefined, width |-> 0, height |-> NaN, pixelSize |-> 0]

drawPixelGrid(binary, mode, colorShift) ==
    LET channelOrder == channelOrderOf(colorShift)
    IN  IF mode = "rgb" /\ channelOrder = Undefined
        THEN [NotDrawn EXCEPT !.threw = "TypeError"]   \* channelOrder.join
        ELSE ByValue2(LAMBDA px, order : drawCells(binary, mode, px, order),
                      pixelsOf(binary, mode, colorShift), channelOrder)

----------------------------------------------------------------------------
(* drawPixelGrid of the earlier variant (src/unnamed/part_000) *)

\* the keys of colorSchemes; rainbow is null
colorSchemeNames == {"bw", "green", "blue", "fire", "rainbow"}

colorSchemes(scheme) ==
    IF scheme = "bw" THEN [zero |-> <<20, 20, 30>>, one |-> <<255, 255, 255>>]
    ELSE IF scheme = "green" THEN [zero |-> <<10, 20, 10>>, one |-> <<0, 255, 100>>]
    ELSE IF scheme = "blue" THEN [zero |-> <<10, 20, 40>>, one |-> <<100, 200, 255>>]
    ELSE IF scheme = "fire" THEN [zero |-> <<30, 10, 10>>, one |-> <<255, 100, 50>>]
    ELSE Undefined   \* null for rainbow, undefined for any other name

\* getRainbowColor(index, total) in exact arithmetic: h = 6 index / total,
\* x = 255 (1 - |h mod 2 - 1|), Math.round(x) = floor(x + 1/2)
getRainbowColor(index, total) ==
    LET h6 == 6 * index
        m  == h6 % (2 * total)
        d  == IF m >= total THEN m - total ELSE total - m
        x  == (2 * 255 * (total - d) + total) \div (2 * total)
        c  == 255
    IN  IF h6 < total THEN <<c, x, 0>>
        ELSE IF h6 < 2 * total THEN <<x, c, 0>>
        ELSE IF h6 < 3 * total THEN <<0, c, x>>
        ELSE IF h6 < 4 * total THEN <<0, x, c>>
        ELSE IF h6 < 5 * total THEN <<x, 0, c>>
        ELSE <<c, 0, x>>

\* Math.max(1, Math.min(20, Math.floor(500 / width))) of the variant
pixelSizeOf_part000(width) ==
    IF width = 0 THEN Max(1, 20) ELSE Max(1, Min(20, maxCanvasSize \div width))

drawPixelGrid_part000(binary, scheme) ==
    LET totalBits == Len(binary)
        width     == gridWidth(totalBits)
        height    == gridHeight(totalBits, width)
        pixelSize == pixelSizeOf_part000(width)
        colors    == colorSchemes(scheme)
        remainingCells == IF height = NaN THEN 0 ELSE width * height[1] - totalBits
        zeroColor == IF scheme = "rainbow" THEN <<20, 20, 30>> ELSE colors.zero
        sized     == [canvasWidth  |-> width * pixelSize,
                      canvasHeight |-> IF height = NaN THEN 0 ELSE height[1] * pixelSize]
    IN  IF scheme # "rainbow" /\ colors = Undefined /\ totalBits + remainingCells > 0
        THEN \* colors.one, colors.zero of undefined: thrown at the first cell
             [threw |-> "TypeError", canvasWidth |-> sized.canvasWidth,
              canvasHeight |-> sized.canvasHeight, fills |-> <<>>,
              dimensions |-> Undefined, width |-> 0, height |-> NaN, pixelSize |-> 0]
        ELSE [threw        |-> "none",
              canvasWidth  |-> sized.canvasWidth,
              canvasHeight |-> sized.canvasHeight,
              fills        |->
                  [k \in 1..(totalBits + Max(remainingCells, 0)) |->
                      fillRect(cellX(k - 1, width, pixelSize),
                               cellY(k - 1, width, pixelSize), pixelSize, pixelSize,
                               IF k > totalBits THEN zeroColor
                               ELSE IF scheme = "rainbow"
                               THEN IF binary[k] = "1"
                                    THEN getRainbowColor(k - 1, totalBits)
                                    ELSE <<20, 20, 30>>
                               ELSE IF binary[k] = "1" THEN colors.one ELSE colors.zero)],
              dimensions   |-> [width |-> width, height |-> height,
                                totalBits |-> totalBits, pixelSize |-> pixelSize],
              width |-> width, height |-> height, pixelSize |-> pixelSize]

----------------------------------------------------------------------------
(* encode, refreshGrid and what they write to the page (src/script.js) *)

emptyInputMessage == "Please enter some text."
invalidCharactersMessage ==
    "Invalid characters! Only letters (A-Z, a-z) and numbers (0-9) are allowed."
tooLongMessage == "Text too long! Maximum 100 characters for performance reasons."

\* e.target.value.replace(/[^a-zA-Z0-9]/g, '')
filterInput(value) == SelectSeq(value, isAlnum)

\* one item per character: its char, its prime in decimal and its exponent
createBreakdownHTML(breakdown) ==
    [k \in 1..Len(breakdown) |->
        [char |-> breakdown[k].char, prime |-> toString(breakdown[k].prime),
         exp |-> breakdown[k].exponent]]

\* binary.length > 10000
BinaryDisplayLimit == 10000

\* one span per character of displayBinary, each span given by its class: one
\* for the text '1', zero for any other text
createBinaryHTML(binary) ==
    LET displayBinary == IF Len(binary) > BinaryDisplayLimit
                         THEN substring(binary, 0, BinaryDisplayLimit) \o <<".", ".", ".">>
                         ELSE binary
    IN  [k \in 1..Len(displayBinary) |->
            IF displayBinary[k] = "1" THEN "one" ELSE "zero"]

\* the text and markup of the result elements before any encoding
BlankDisplay ==
    [encodingBreakdown |-> <<>>, godelNumber |-> <<>>, digitCount |-> Undefined,
     binaryInfo |-> Undefined, binaryDisplay |-> <<>>]

BlankCanvas ==
    [canvasWidth |-> 0, canvasHeight |-> 0, pixelSize |-> 0, cells |-> <<>>,
     gridDimensions |-> Undefined]

\* what a call of drawPixelGrid leaves on the canvas and in grid-dimensions:
\* the k-th fillRect is the square of side pixelSize at (x, y) of cell k - 1,
\* so the canvas is the colours of its cells in row-major order
canvasAfter(grid) ==
    [canvasWidth |-> grid.canvasWidth, canvasHeight |-> grid.canvasHeight,
     pixelSize |-> grid.pixelSize,
     cells |-> [k \in 1..Len(grid.fills) |-> grid.fills[k].fillStyle],
     gridDimensions |-> grid.dimensions]

\* calculateGodelNumber(input, encodingShift), number.toString(),
\* toBinary(number) and the elements written from them
renderNumber(input, encodingShift) ==
    ByValue1(LAMBDA r :
        IF r.threw # "none" THEN [threw |-> r.threw]
        ELSE ByValue2(LAMBDA numberStr, binary :
                 [threw   |-> "none",
                  binary  |-> binary,
                  display |->
                      [encodingBreakdown |-> createBreakdownHTML(r.breakdown),
                       godelNumber       |-> numberStr,
                       digitCount        |-> Num(Len(numberStr)),
                       binaryInfo        |-> Num(Len(binary)),
                       binaryDisplay     |-> createBinaryHTML(binary)]],
                 toString(r.number), toBinary(r.number)),
        calculateGodelNumber(input, encodingShift))

NoCall == <<>>
Call(text, encodingShift) == <<[text |-> text, encodingShift |-> encodingShift]>>

----------------------------------------------------------------------------
(* Inputs of the bounded model *)

\* s + 36k for s in -MaxShift..MaxShift and k in -1..1
ShiftValues ==
    {s + AlphabetSize * k : s \in (-MaxShift)..MaxShift, k \in (-1)..1}

\* letters, digits, and the characters around their ranges: ' ', '!', '/',
\* ':', '@', '[', backquote, '{'
MapChars == (48..57) \cup (65..90) \cup (97..122) \cup {32, 33, 47, 58, 64, 91, 96, 123}

\* 'A', 'a', '9'
EncChars == {65, 97, 57}

EncShiftValues == (-MaxShift)..MaxShift

SeqsUpTo(S, n) == UNION {[1..k -> S] : k \in 0..n}

EncTexts == SeqsUpTo(EncChars, MaxTextLen) \ {<<>>}

\* bit i (from 1) of pattern p: all ones for p = 0, else one "1" in every
\* p + 1 bits, the first bit "1" for even p and "0" for odd p
PatternBit(p, i) ==
    IF p = 0 THEN "1"
    ELSE IF (i + (p % 2) * p) % (p + 1) = 1 THEN "1" ELSE "0"

BitStrings ==
    (SeqsUpTo({"0", "1"}, MaxAllBits) \ {<<>>})
    \cup {[i \in 1..n |-> PatternBit(p, i)] : n \in 1..MaxBits, p \in 0..MaxPattern}

\* the modes of the interface, and the scheme names of the earlier variant
RasModes == {"bw", "greyscale", "rgb", "rainbow"} \cup colorSchemeNames

\* the text field holds '', '!', 'A!', 'A', or 'A' repeated up to the limit and
\* one past it
UiTexts ==
    {<<>>, <<33>>, <<65, 33>>, <<65>>}
    \cup {[i \in 1..n |-> 65] : n \in MaxInputLength..(MaxInputLength + 1)}

UiShiftValues == 0..MaxUiShift
UiColorShiftValues == 0..MaxUiColorShift
UiColorSchemes == {"bw", "greyscale", "rgb"}
UiKeys == {"Enter", "a"}

\* renderNumber, and drawPixelGrid with what it leaves on the canvas, on the
\* inputs of the page, computed once
Rendered ==
    [input \in UiTexts, encodingShift \in UiShiftValues |->
        renderNumber(input, encodingShift)]

Drawn ==
    [input \in {t \in UiTexts : validateInput(t)}, encodingShift \in UiShiftValues,
     colorScheme \in UiColorSchemes, colorShift \in UiColorShiftValues |->
        ByValue1(LAMBDA r :
            IF r.threw # "none" THEN [threw |-> "not called", canvas |-> BlankCanvas]
            ELSE ByValue1(LAMBDA grid : [threw |-> grid.threw, canvas |-> canvasAfter(grid)],
                          drawPixelGrid(r.binary, colorScheme, colorShift)),
            Rendered[input, encodingShift])]

----------------------------------------------------------------------------
(* The pure-function machines, each idle in the others' runs *)

IdleGen == count = 0 /\ primes = <<>> /\ num = 2 /\ genPc = "idle"
IdleMap == /\ mapChar = 65 /\ mapShift = 0 /\ charValue = Null
           /\ shiftedBack = Null /\ mapPc = "idle"
IdleEnc == /\ text1 = <<>> /\ text2 = <<>> /\ encShift = 0
           /\ out1 = NotCalled /\ out2 = NotCalled /\ encPc = "idle"
IdleRas == /\ rasBinary = <<"0">> /\ rasMode = "bw" /\ rasColorShift = 0
           /\ rasOut = NotDrawn /\ rasPc = "idle"

IdleUi == /\ textInput = <<>> /\ encodingShiftSlider = 0 /\ colorShiftSlider = 0
          /\ colorSchemeSelect = "bw" /\ encodingShiftValue = 0 /\ colorShiftValue = 0
          /\ colorShiftGroupDisabled = TRUE /\ errorMessage = ""
          /\ resultSectionHidden = TRUE /\ display = BlankDisplay
          /\ canvas = BlankCanvas /\ lastCall = NoCall

(* generatePrimes(count): the while loop, one iteration per step *)

InitGen ==
    /\ count \in (-MaxNegCount)..MaxCount
    /\ primes = <<>> /\ num = 2 /\ genPc = "while"
    /\ IdleMap /\ IdleEnc /\ IdleRas /\ IdleUi

GenIterate ==
    /\ genPc = "while"
    /\ Len(primes) < count
    /\ \E st \in {generatePrimesBody([primes |-> primes, num |-> num, count |-> count])} :
          primes' = st.primes /\ num' = st.num
    /\ UNCHANGED <<count, genPc, mapVars, encVars, rasVars, uiVars>>

GenReturn ==
    /\ genPc = "while"
    /\ ~(Len(primes) < count)
    /\ genPc' = "done"
    /\ UNCHANGED <<count, primes, num, mapVars, encVars, rasVars, uiVars>>

NextGen == GenIterate \/ GenReturn

\* the loop is synchronous code: it runs on until its condition fails
SpecGen == InitGen /\ [][NextGen]_vars /\ WF_vars(NextGen)

(* getCharValue(char, shift), then the shift (36 - s) mod 36 applied to the *)
(* value it returned                                                       *)

InitMap ==
    /\ mapChar \in MapChars /\ mapShift \in ShiftValues
    /\ charValue = Null /\ shiftedBack = Null /\ mapPc = "call"
    /\ IdleGen /\ IdleEnc /\ IdleRas /\ IdleUi

MapCall ==
    /\ mapPc = "call"
    /\ charValue' = getCharValue(mapChar, mapShift)
    /\ mapPc' = "mapped"
    /\ UNCHANGED <<mapChar, mapShift, shiftedBack, genVars, encVars, rasVars, uiVars>>

MapShiftBack ==
    /\ mapPc = "mapped"
    /\ charValue # Null
    /\ shiftedBack' =
          Some(applyShift(charValue[1], (AlphabetSize - mapShift) % AlphabetSize))
    /\ mapPc' = "back"
    /\ UNCHANGED <<mapChar, mapShift, charValue, genVars, encVars, rasVars, uiVars>>

NextMap == MapCall \/ MapShiftBack

SpecMap == InitMap /\ [][NextMap]_vars

(* calculateGodelNumber(text1, shift), then calculateGodelNumber(text2, shift) *)

InitEnc ==
    /\ text1 \in EncTexts /\ text2 \in EncTexts
    /\ encShift = 0                      \* the parameter's default
    /\ out1 = NotCalled /\ out2 = NotCalled /\ encPc = "first"
    /\ IdleGen /\ IdleMap /\ IdleRas /\ IdleUi

EncSetShift(s) ==
    /\ encPc = "first"
    /\ encShift = 0 /\ s # 0
    /\ encShift' = s
    /\ UNCHANGED <<text1, text2, out1, out2, encPc, genVars, mapVars, rasVars, uiVars>>

EncFirst ==
    /\ encPc = "first"
    /\ out1' = calculateGodelNumber(text1, encShift)
    /\ encPc' = "second"
    /\ UNCHANGED <<text1, text2, encShift, out2, genVars, mapVars, rasVars, uiVars>>

EncSecond ==
    /\ encPc = "second"
    /\ out2' = calculateGodelNumber(text2, encShift)
    /\ encPc' = "done"
    /\ UNCHANGED <<text1, text2, encShift, out1, genVars, mapVars, rasVars, uiVars>>

NextEnc == (\E s \in EncShiftValues : EncSetShift(s)) \/ EncFirst \/ EncSecond

SpecEnc == InitEnc /\ [][NextEnc]_vars

(* drawPixelGrid(binary, mode, colorShift) of src/script.js, or              *)
(* drawPixelGrid(binary, scheme) of the earlier variant, on a cleared canvas *)

InitRas ==
    /\ rasBinary \in BitStrings /\ rasMode \in RasModes
    /\ rasColorShift \in 0..MaxColorShift
    /\ rasOut = NotDrawn /\ rasPc = "call"
    /\ IdleGen /\ IdleMap /\ IdleEnc /\ IdleUi

RasDraw ==
    /\ rasPc = "call"
    /\ rasOut' = drawPixelGrid(rasBinary, rasMode, rasColorShift)
    /\ rasPc' = "drawn"
    /\ UNCHANGED <<rasBinary, rasMode, rasColorShift, genVars, mapVars, encVars, uiVars>>

RasDrawPart000 ==
    /\ rasPc = "call"
    /\ rasColorShift = 0             \* the variant has no colorShift parameter
    /\ rasOut' = drawPixelGrid_part000(rasBinary, rasMode)
    /\ rasPc' = "drawn_part000"
    /\ UNCHANGED <<rasBinary, rasMode, rasColorShift, genVars, mapVars, encVars, uiVars>>

NextRas == RasDraw \/ RasDrawPart000

SpecRas == InitRas /\ [][NextRas]_vars

(* The page after DOMContentLoaded, and its event listeners *)

\* a rejection of encode: the message, the result section hidden, return
RejectInput(message) ==
    /\ errorMessage' = message
    /\ resultSectionHidden' = TRUE
    /\ lastCall' = NoCall
    /\ UNCHANGED <<display, canvas>>

WriteResultsGridOnly(r, grid, isEncode) ==
    /\ errorMessage' = IF isEncode THEN "" ELSE errorMessage
    /\ display' = IF isEncode /\ r.threw = "none" THEN r.display ELSE display
    /\ canvas' = IF r.threw = "none" /\ grid.threw = "none" THEN grid.canvas ELSE canvas
    /\ resultSectionHidden' =
           IF isEncode /\ r.threw = "none" /\ grid.threw = "none"
           THEN FALSE ELSE resultSectionHidden

\* what encode (isEncode) and refreshGrid write from the outcome r of the
\* number's rendering and the outcome grid of drawPixelGrid: an exception of
\* a call leaves the handler at that call
WriteResults(r, grid, isEncode) ==
    /\ errorMessage' = IF isEncode THEN "" ELSE errorMessage
    /\ display' = IF r.threw = "none" THEN r.display ELSE display
    /\ canvas' = IF r.threw = "none" /\ grid.threw = "none" THEN grid.canvas ELSE canvas
    /\ resultSectionHidden' =
           IF isEncode /\ r.threw = "none" /\ grid.threw = "none"
           THEN FALSE ELSE resultSectionHidden

\* the rest of encode (isEncode) or the body of refreshGrid's if
ShowResults(input, encodingShift, colorScheme, colorShift, isEncode) ==
    /\ lastCall' = Call(input, encodingShift)
    /\ WriteResults(Rendered[input, encodingShift],
                    Drawn[input, encodingShift, colorScheme, colorShift], isEncode)

\* encode() on the controls' values
encode ==
    LET input         == textInput
        encodingShift == encodingShiftSlider
        colorShift    == colorShiftSlider
    IN  IF input = <<>> THEN RejectInput(emptyInputMessage)
        ELSE IF ~validateInput(input) THEN RejectInput(invalidCharactersMessage)
        ELSE IF Len(input) > MaxInputLength THEN RejectInput(tooLongMessage)
        ELSE ShowResults(input, encodingShift, colorSchemeSelect, colorShift, TRUE)

\* refreshGrid() once the controls hold encodingShift, colorShift, colorScheme
refreshGrid(encodingShift, colorShift, colorScheme) ==
    LET input == textInput
    IN  IF input # <<>> /\ validateInput(input)
        THEN ShowResults(input, encodingShift, colorScheme,
                         IF colorScheme = "rgb" THEN colorShift ELSE 0, FALSE)
        ELSE /\ lastCall' = NoCall
             /\ UNCHANGED <<errorMessage, resultSectionHidden, display, canvas>>

\* updateColorShiftVisibility() once the select holds colorScheme
updateColorShiftVisibility(colorScheme) ==
    colorShiftGroupDisabled' = (colorScheme # "rgb")

\* the field's value and the controls' positions come from the markup or from
\* what the browser restores: any text, any position
InitUi ==
    /\ textInput \in UiTexts
    /\ encodingShiftSlider \in UiShiftValues /\ encodingShiftValue = encodingShiftSlider
    /\ colorShiftSlider \in UiColorShiftValues /\ colorShiftValue = colorShiftSlider
    /\ colorSchemeSelect \in UiColorSchemes
    /\ colorShiftGroupDisabled = (colorSchemeSelect # "rgb")
    /\ errorMessage = "" /\ resultSectionHidden = TRUE
    /\ display = BlankDisplay /\ canvas = BlankCanvas
    /\ lastCall = NoCall
    /\ IdleGen /\ IdleMap /\ IdleEnc /\ IdleRas

UiOthers == <<genVars, mapVars, encVars, rasVars>>

\* click on encode-btn
UiEncodeClick ==
    /\ encode
    /\ UNCHANGED <<uiControls, encodingShiftValue, colorShiftValue,
                   colorShiftGroupDisabled, UiOthers>>

\* keypress in text-input
UiKeypress ==
    \E key \in UiKeys :
        /\ IF key = "Enter" THEN encode
           ELSE /\ lastCall' = NoCall
                /\ UNCHANGED <<errorMessage, resultSectionHidden, display, canvas>>
        /\ UNCHANGED <<uiControls, encodingShiftValue, colorShiftValue,
                       colorShiftGroupDisabled, UiOthers>>

\* input in text-input: the edit left value in the field
UiTextInput ==
    \E value \in UiTexts :
        /\ textInput' = filterInput(value)
        /\ lastCall' = NoCall
        /\ UNCHANGED <<encodingShiftSlider, colorShiftSlider, colorSchemeSelect,
                       encodingShiftValue, colorShiftValue, colorShiftGroupDisabled,
                       errorMessage, resultSectionHidden, display, canvas, UiOthers>>

\* change of color-scheme
UiColorSchemeChange ==
    \E colorScheme \in UiColorSchemes :
        /\ colorSchemeSelect' = colorScheme
        /\ updateColorShiftVisibility(colorScheme)
        /\ refreshGrid(encodingShiftSlider, colorShiftSlider, colorScheme)
        /\ UNCHANGED <<textInput, encodingShiftSlider, colorShiftSlider,
                       encodingShiftValue, colorShiftValue, UiOthers>>

\* input of the encoding-shift slider
UiEncodingShiftInput ==
    \E value \in UiShiftValues :
        /\ encodingShiftSlider' = value
        /\ encodingShiftValue' = value
        /\ refreshGrid(value, colorShiftSlider, colorSchemeSelect)
        /\ UNCHANGED <<textInput, colorShiftSlider, colorSchemeSelect,
                       colorShiftValue, colorShiftGroupDisabled, UiOthers>>

\* input of the color-shift slider
UiColorShiftInput ==
    \E value \in UiColorShiftValues :
        /\ colorShiftSlider' = value
        /\ colorShiftValue' = value
        /\ refreshGrid(encodingShiftSlider, value, colorSchemeSelect)
        /\ UNCHANGED <<textInput, encodingShiftSlider, colorSchemeSelect,
                       encodingShiftValue, colorShiftGroupDisabled, UiOthers>>

NextUi ==
    \/ UiEncodeClick \/ UiKeypress \/ UiTextInput
    \/ UiColorSchemeChange \/ UiEncodingShiftInput \/ UiColorShiftInput

SpecUi == InitUi /\ [][NextUi]_vars

----------------------------------------------------------------------------
(* Properties *)

IsPrimeNumber(n) == n >= 2 /\ \A d \in 2..(n - 1) : n % d # 0

\* the integer a BigInt of at most two limbs stands for
SmallValue(a) ==
    IF Len(a) = 0 THEN 0 ELSE IF Len(a) = 1 THEN a[1] ELSE a[1] + LimbBase * a[2]

\* p is the k-th prime
IsNthPrime(p, k) ==
    IsPrimeNumber(p) /\ Cardinality({q \in 2..p : IsPrimeNumber(q)}) = k

\* ps holds exactly the first n primes, ascending
FirstPrimes(ps, n) ==
    /\ Len(ps) = n
    /\ \A i \in 1..n : Len(ps[i]) = 1 /\ IsNthPrime(SmallValue(ps[i]), i)
    /\ \A i \in 1..(n - 1) : SmallValue(ps[i]) < SmallValue(ps[i + 1])

CaseFold(text) == [i \in 1..Len(text) |-> IF text[i] \in 97..122 THEN text[i] - 32 ELSE text[i]]

RECURSIVE ProductOfTerms(_)
ProductOfTerms(breakdown) ==
    IF breakdown = <<>> THEN <<1>>
    ELSE BigMul(Head(breakdown).term, ProductOfTerms(Tail(breakdown)))

Returned(out) == out.threw = "none"

C2_BreakdownAndProduct ==
    (encPc \in {"second", "done"})
        => /\ Returned(out1)
           /\ Len(out1.breakdown) = Len(text1)
           /\ \A i \in 1..Len(text1) :
                 LET item == out1.breakdown[i]
                 IN  /\ item.position = i
                     /\ item.char = text1[i]
                     /\ IsNthPrime(SmallValue(item.prime), i)
                     /\ Some(item.exponent) = getCharValue(text1[i], encShift)
                     /\ item.term = BigPow(item.prime, item.exponent)
           /\ out1.number = ProductOfTerms(out1.breakdown)

\* C3: for every letter or digit and every integer shift, negative ones
\* included, getCharValue returns an integer in 1..36.
C3_CharValueInRange ==
    (mapPc # "call" /\ isAlnum(mapChar))
        => (charValue # Null /\ charValue[1] \in 1..AlphabetSize)

\* C4: for every shift s the shift mapping is a bijection on 1..36: it maps
\* 1..36 into 1..36, and the shift (36 - s) mod 36 applied to its result gives
\* the original value back.
C4_ShiftIsBijection ==
    (mapPc = "back")
        => /\ charValue[1] \in 1..AlphabetSize
           /\ shiftedBack = getCharValue(mapChar, 0)

\* C5: generatePrimes(count) terminates, and returns exactly the first
\* max(count, 0) primes in ascending order (the empty sequence for count <= 0).
C5_GeneratePrimesCorrect ==
    /\ [](genPc = "done" => FirstPrimes(primes, Max(count, 0)))
    /\ <>(genPc = "done")

C5_Witness ==
    genPc = "done" /\ count = 5 /\ primes = <<<<2>>, <<3>>, <<5>>, <<7>>, <<11>>>>

----------------------------------------------------------------------------
(* Properties of drawPixelGrid *)

\* q = ceil(a / b) and w = ceil(sqrt(n)), stated without division or root
IsCeilDiv(q, a, b) == q * b >= a /\ (q - 1) * b < a
IsCeilSqrt(w, n) == w * w >= n /\ (w = 0 \/ (w - 1) * (w - 1) < n)

\* bits per pixel of the multi-bit and 1-bit modes of src/script.js
BitsPerPixel(mode) == IF mode = "bw" THEN 1 ELSE IF mode = "greyscale" THEN 8 ELSE 24

\* the value of bits from + 1 .. from + k of binary, the first bit weighing most
RECURSIVE GroupValue(_, _, _)
GroupValue(binary, from, k) ==
    IF k = 0 THEN 0
    ELSE 2 * GroupValue(binary, from, k - 1)
         + (IF binary[from + k] = "1" THEN 1 ELSE 0)

\* fill f is exactly grid cell index of a grid width cells wide
CoversCell(f, index, width, pixelSize) ==
    /\ f.x = (index % width) * pixelSize /\ f.y = (index \div width) * pixelSize
    /\ f.w = pixelSize /\ f.h = pixelSize

DrawnByScript == rasPc = "drawn"
DrawnByEither == rasPc \in {"drawn", "drawn_part000"}

\* C8: for a non-empty bit string of length L and a mode of B bits per pixel
\* (bw 1, greyscale 8, rgb 24), drawPixelGrid produces ceil(L / B) pixels,
\* width = ceil(sqrt(pixels)), height = ceil(pixels / width), width * height
\* >= pixels, and exactly the trailing cells pixels .. width * height - 1
\* are filled with rgb(0, 0, 0).
C8_PixelCountAndGrid ==
    (DrawnByScript /\ rasMode \in {"bw", "greyscale", "rgb"}) =>
        LET L == Len(rasBinary)
            n == Len(rasOut.pixels)
            w == rasOut.width
        IN  /\ rasOut.threw = "none"
            /\ IsCeilDiv(n, L, BitsPerPixel(rasMode))
            /\ IsCeilSqrt(w, n)
            /\ rasOut.height # NaN
            /\ IsCeilDiv(rasOut.height[1], n, w)
            /\ w * rasOut.height[1] >= n
            /\ Len(rasOut.fills) = w * rasOut.height[1]
            /\ \A k \in 1..n : rasOut.fills[k].fillStyle = rasOut.pixels[k]
            /\ \A index \in n..(w * rasOut.height[1] - 1) :
                  /\ rasOut.fills[index + 1].fillStyle = <<0, 0, 0>>
                  /\ CoversCell(rasOut.fills[index + 1], index, w, rasOut.pixelSize)

\* three rgb pixels on a 2 x 2 grid, the fourth cell padded
C8_Witness ==
    /\ DrawnByScript /\ rasMode = "rgb" /\ rasOut.threw = "none"
    /\ Len(rasOut.pixels) = 3 /\ Len(rasOut.fills) = 4
    /\ rasOut.fills[4].fillStyle = <<0, 0, 0>>

\* the pixel is the three bytes of value, first byte on some channel and the
\* others following it cyclically
IsRotationOfBytes(pixel, value) ==
    LET bytes == <<value \div 65536, (value \div 256) % 256, value % 256>>
    IN  \E r \in 0..2 : \A c \in 1..3 : pixel[((c - 1 + r) % 3) + 1] = bytes[c]

\* C9: in greyscale and rgb modes every group of B bits is converted most
\* significant bit first, every channel is in 0..255, and a final group of
\* k < B bits is right-padded with zeros: its pixel's value is the value of
\* the k bits times 2^(B - k).
C9_FinalGroupRightPadded ==
    (DrawnByScript /\ rasMode \in {"greyscale", "rgb"}) =>
        LET L == Len(rasBinary)
            B == BitsPerPixel(rasMode)
        IN  /\ rasOut.threw = "none"
            /\ \A p \in 1..Len(rasOut.pixels) :
                  LET k     == IF L - B * (p - 1) < B THEN L - B * (p - 1) ELSE B
                      value == GroupValue(rasBinary, B * (p - 1), k) * 2 ^ (B - k)
                      pixel == rasOut.pixels[p]
                  IN  /\ k >= 1
                      /\ \A c \in 1..3 : pixel[c] \in 0..255
                      /\ rasMode = "greyscale" => pixel = <<value, value, value>>
                      /\ rasMode = "rgb" => IsRotationOfBytes(pixel, value)

\* an rgb drawing whose last group is short and holds a "1", after full groups
C9_Witness ==
    /\ DrawnByScript /\ rasMode = "rgb" /\ rasOut.threw = "none"
    /\ Len(rasBinary) > 24 /\ Len(rasBinary) % 24 \notin {0, 8, 16}
    /\ rasBinary[Len(rasBinary)] = "1"
    /\ rasOut.pixels[Len(rasOut.pixels)] # <<0, 0, 0>>

\* C10: for every non-empty bit string and every mode of bw, greyscale, rgb,
\* rainbow, drawPixelGrid throws nothing, returns width >= 1 and height >= 1,
\* and paints each of the width * height cells exactly once, in row-major
\* order (pixel cells, then padding cells).
C10_NoErrorStates ==
    (DrawnByEither /\ rasMode \in {"bw", "greyscale", "rgb", "rainbow"}) =>
        /\ rasOut.threw = "none"
        /\ rasOut.width >= 1
        /\ rasOut.height # NaN
        /\ rasOut.height[1] >= 1
        /\ Len(rasOut.fills) = rasOut.width * rasOut.height[1]
        /\ \A k \in 1..Len(rasOut.fills) :
              CoversCell(rasOut.fills[k], k - 1, rasOut.width, rasOut.pixelSize)
        /\ rasOut.canvasWidth = rasOut.width * rasOut.pixelSize
        /\ rasOut.canvasHeight = rasOut.height[1] * rasOut.pixelSize

----------------------------------------------------------------------------
(* Properties of the page *)

InvalidText(text) == text # <<>> /\ \E i \in 1..Len(text) : ~isAlnum(text[i])

\* C6: encode() on an empty input, or on one with a character outside
\* [A-Za-z0-9], sets a non-empty message of its own for each of the two cases,
\* hides the result section, does not call calculateGodelNumber and leaves
\* the displayed number, binary display and pixel grid as they were.
C6_EncodeRejectsBadInput ==
    [][(encode /\ (textInput = <<>> \/ InvalidText(textInput))) =>
          /\ errorMessage' = IF textInput = <<>> THEN emptyInputMessage
                             ELSE invalidCharactersMessage
          /\ errorMessage' # ""
          /\ emptyInputMessage # invalidCharactersMessage
          /\ resultSectionHidden'
          /\ lastCall' = NoCall
          /\ display' = display /\ canvas' = canvas]_vars

\* encode has rejected an empty input after a result was displayed
C6_Witness ==
    /\ textInput = <<>>
    /\ errorMessage = emptyInputMessage /\ resultSectionHidden
    /\ display # BlankDisplay /\ canvas # BlankCanvas /\ lastCall = NoCall

\* C7: whatever the events, no handler calls calculateGodelNumber (and so
\* none indexes PRIMES) for a text of more than 100 characters.
C7_LongTextNeverEncoded ==
    lastCall # NoCall => Len(lastCall[1].text) <= MaxInputLength

----------------------------------------------------------------------------
(* Properties of the channel order and of the page's displays *)

\* the channel of pixel [r, g, b] that a channel name stands for
ChannelOf(pixel, name) ==
    IF name = "R" THEN pixel[1] ELSE IF name = "G" THEN pixel[2] ELSE pixel[3]

\* the three 8-bit values of the 24-bit group p of binary, right-padded
GroupBytes(binary, p) ==
    LET from  == 24 * (p - 1)
        k     == IF Len(binary) - from < 24 THEN Len(binary) - from ELSE 24
        value == GroupValue(binary, from, k) * 2 ^ (24 - k)
    IN  <<value \div 65536, (value \div 256) % 256, value % 256>>

\* the orders the interface allows: the identity and its cyclic rotations
CyclicOrders == {<<"R", "G", "B">>, <<"G", "B", "R">>, <<"B", "R", "G">>}

\* C11: in rgb mode, for every colorShift >= 0, the three 8-bit values of each
\* 24-bit group go to the channels in the order channelOrders[colorShift % 3]
\* (0: R,G,B; 1: G,B,R; 2: B,R,G): the order applied to the pixels is the
\* order named in the mode description, and it is the identity or a rotation.
C11_ChannelOrderApplied ==
    (DrawnByScript /\ rasMode = "rgb" /\ rasColorShift >= 0) =>
        LET order == channelOrders[(rasColorShift % 3) + 1]
        IN  /\ rasOut.threw = "none"
            /\ order \in CyclicOrders
            /\ rasOut.dimensions.modeDescription
                   = <<"24-bit RGB (">> \o order \o <<" order)">>
            /\ \A p \in 1..Len(rasOut.pixels) : \A c \in 1..3 :
                  ChannelOf(rasOut.pixels[p], order[c]) = GroupBytes(rasBinary, p)[c]

\* the BigInt written by decimal digits, by Horner's rule on st = [digits, i, acc]
DigitsValueDone(st) == st.i > Len(st.digits)

DigitsValueBody(st) ==
    [st EXCEPT !.i = @ + 1,
               !.acc = BigAdd(BigMulLimb(@, 10), BigInt(st.digits[st.i]))]

RECURSIVE DigitsValueRun(_, _)
DigitsValueRun(st, k) ==
    IF DigitsValueDone(st) THEN st
    ELSE IF k = 0 THEN DigitsValueBody(st)
    ELSE ByValue2(DigitsValueRun, DigitsValueRun(st, k - 1), k - 1)

RECURSIVE DigitsValueLoop(_, _)
DigitsValueLoop(st, k) ==
    IF DigitsValueDone(st) THEN st ELSE ByValue2(DigitsValueLoop, DigitsValueRun(st, k), k + 1)

DigitsValue(digits) == DigitsValueLoop([digits |-> digits, i |-> 1, acc |-> <<>>], 0).acc

\* the sum of 2^b over the b in 0..(n - 1) for which the span of weight
\* 2^(low + b), counted from the last span, is of class one
RECURSIVE SpanBits(_, _, _)
SpanBits(spans, low, n) ==
    IF n = 0 THEN 0
    ELSE SpanBits(spans, low, n - 1)
         + (IF low + n - 1 < Len(spans) /\ spans[Len(spans) - (low + n - 1)] = "one"
            THEN 2 ^ (n - 1) ELSE 0)

\* the BigInt written in binary by the spans of the binary display
SpansValue(spans) ==
    [i \in 1..((Len(spans) + LimbBits - 1) \div LimbBits) |->
        SpanBits(spans, LimbBits * (i - 1), LimbBits)]

ValidUiTexts == {t \in UiTexts : validateInput(t)}

\* for each pair the page can render: its decimal digits and its binary
\* display write the number of calculateGodelNumber, the counts are their
\* lengths, the breakdown lists the characters of the text with their shifted
\* values, and the black-and-white grid shows the bits of the binary display
PairAgrees ==
    [t \in ValidUiTexts, s \in UiShiftValues |->
        LET d == Rendered[t, s].display
            n == calculateGodelNumber(t, s).number
        IN  /\ DigitsValue(d.godelNumber) = n
            /\ SpansValue(d.binaryDisplay) = n
            /\ d.digitCount = <<Len(d.godelNumber)>>
            /\ d.binaryInfo = <<Len(d.binaryDisplay)>>
            /\ Len(d.encodingBreakdown) = Len(t)
            /\ \A i \in 1..Len(t) :
                  /\ d.encodingBreakdown[i].char = t[i]
                  /\ <<d.encodingBreakdown[i].exp>> = getCharValue(t[i], s)
            /\ \A cs \in UiColorShiftValues :
                  LET cells == Drawn[t, s, "bw", cs].canvas.cells
                  IN  /\ Len(cells) >= Len(d.binaryDisplay)
                      /\ \A k \in 1..Len(d.binaryDisplay) :
                            cells[k] = IF d.binaryDisplay[k] = "one"
                                       THEN <<255, 255, 255>> ELSE <<0, 0, 0>>]

\* the displays in page state shown are those of the pair (t, s)
ShowsPair(shownDisplay, shownCanvas, t, s) ==
    /\ shownDisplay = Rendered[t, s].display
    /\ \E scheme \in UiColorSchemes, cs \in UiColorShiftValues :
          shownCanvas = Drawn[t, s, scheme, cs].canvas
    /\ PairAgrees[t, s]

DerivedFromOnePair ==
    \/ display = BlankDisplay /\ canvas = BlankCanvas
    \/ \E t \in ValidUiTexts, s \in UiShiftValues : ShowsPair(display, canvas, t, s)

\* C12: after any sequence of events the breakdown, Goedel number, digit
\* count, bit count, binary display and pixel grid all come from one and the
\* same (text, encoding shift) pair: a handler that calls calculateGodelNumber
\* rewrites all of them from that call, and a handler that does not call it
\* (a rejection included) changes none of them.
C12_DisplaysFromOnePair ==
    /\ [](DerivedFromOnePair)
    /\ [][/\ lastCall' # NoCall =>
                ShowsPair(display', canvas', lastCall'[1].text, lastCall'[1].encodingShift)
          /\ lastCall' = NoCall => (display' = display /\ canvas' = canvas)]_vars

\* refreshGrid has rendered a pair under shift 1 after encode rejected an
\* empty field: the results are rewritten and the rejection's message stays
C12_Witness ==
    /\ lastCall # NoCall /\ lastCall[1].encodingShift = 1
    /\ errorMessage = emptyInputMessage /\ resultSectionHidden
    /\ display = Rendered[lastCall[1].text, 1].display
    /\ display # BlankDisplay /\ canvas # BlankCanvas

====
